---- MODULE Spec2Model ----
(***************************************************************************)
(* Model of hw/tpm/tpm_crb.c: the ISA integration layer of the TPM CRB     *)
(* device.  The file binds an external CRB core engine (tpm_crb_* in       *)
(* tpm_crb_common) into the platform: realize, reset, completion           *)
(* forwarding, pre_save and ACPI (AML) emission.                           *)
(*                                                                         *)
(* Addresses are counted in units of 0x1000 bytes, because TLC integers    *)
(* are 32 bit wide and 0xFED40000 does not fit.                            *)
(***************************************************************************)
EXTENDS Integers, Sequences, FiniteSets, TLC

\* ---------------------------------------------------------------- bounds
MaxDevs == 2
MaxCalls == 4
MaxResets == 3

\* ------------------------------------------------------------- constants
\* include/hw/acpi/tpm.h: 0xFED40000, 0x1000 and 0xFED45000, in 0x1000 units
TPM_CRB_ADDR_BASE == 1043776
TPM_CRB_ADDR_SIZE == 1
TPM_PPI_ADDR_BASE == 1043781
AML_READ_WRITE == "AML_READ_WRITE"
TPM_VERSION_2_0 == "TPM_VERSION_2_0"
TPM_VERSION_1_2 == "TPM_VERSION_1_2"
TPM_VERSION_UNSPEC == "TPM_VERSION_UNSPEC"

\* the two configuration errors of realize, by their messages
SingletonViolation == "at most one TPM device is permitted"
MissingBackend == "'tpmdev' property is required"
InitMemoryError == "tpm_crb_init_memory failed"
NoError == "none"

Devs == 1..MaxDevs
Versions == {TPM_VERSION_2_0, TPM_VERSION_1_2, TPM_VERSION_UNSPEC}
\* result codes a backend reports, and statuses the engine's pre-save returns
ResultCodes == {-1, 0, 5}
PreSaveRets == {-1, 0, 1}

VARIABLES
    xen,            \* xen_enabled()
    phase,          \* "constructing", "running" or "aborted"
    tree,           \* the TPM instances present in the object tree
    dev,            \* CRBState properties per device: tpmbe, ppi_enabled, errp
    engine,         \* TPMCRBState per device: version, memory, registers
    address_space,  \* subregions of isa_address_space()
    reset_handlers, \* the registry of qemu_register_reset
    calls,          \* the engine operations invoked, in order
    notified,       \* the completion notifications the backends delivered
    inflight,       \* devices with a command handed to the backend
    scope,          \* the AML scope of the last table build
    resets,         \* the number of platform resets so far
    last            \* the operation that led to this state

vars == <<xen, phase, tree, dev, engine, address_space, reset_handlers,
          calls, notified, inflight, scope, resets, last>>

\* The program state the operations of the file read and write.
World ==
    [xen |-> xen, tree |-> tree, dev |-> dev, engine |-> engine,
     address_space |-> address_space, reset_handlers |-> reset_handlers,
     calls |-> calls]

Call(op, d, arg) == [op |-> op, dev |-> d, arg |-> arg]

\* ------------------------------------------------ external collaborators
\* tpm_find(): the one TPM instance of the platform, NULL when there is
\* another one besides the device being realized.
tpm_find(w) == Cardinality(w.tree) = 1

xen_enabled(w) == w.xen

error_setg(w, d, msg) ==
    IF w.dev[d].errp = NoError
    THEN [w EXCEPT !.dev[d].errp = msg]
    ELSE w

tpm_crb_init_memory(w, d, fail) ==
    LET w1 == [w EXCEPT !.calls = Append(@, Call("init_memory", d, 0)),
                        !.engine[d].mem = TRUE,
                        !.engine[d].regs = [state |-> "init", base |-> 0]]
    IN IF fail THEN error_setg(w1, d, InitMemoryError) ELSE w1

tpm_crb_reset(w, d, addr) ==
    [w EXCEPT !.calls = Append(@, Call("reset", d, addr)),
              !.engine[d].regs = [state |-> "idle", base |-> addr]]

tpm_crb_request_completed(w, d, ret) ==
    [w EXCEPT !.calls = Append(@, Call("request_completed", d, ret)),
              !.engine[d].regs.state = IF ret = 0 THEN "done" ELSE "error"]

tpm_crb_get_version(w, d) ==
    [w |-> [w EXCEPT !.calls = Append(@, Call("get_version", d, 0))],
     ret |-> w.engine[d].version]

\* r is the status the engine's pre-save routine comes back with
tpm_crb_pre_save(w, d, r) ==
    [w |-> [w EXCEPT !.calls = Append(@, Call("pre_save", d, r))],
     ret |-> r]

memory_region_add_subregion(w, addr, mr) ==
    [w EXCEPT !.address_space = @ \cup {[addr |-> addr, mr |-> mr]}]

qemu_register_reset(w, func, d) ==
    [w EXCEPT !.reset_handlers = Append(@, [func |-> func, opaque |-> d])]

\* --------------------------------------------------------- tpm_crb.c
\* a forwarding that reports success whatever the backend said
request_completed_drops_ret(w, d, ret) ==
    tpm_crb_request_completed(w, d, 0)

tpm_crb_isa_request_completed(w, d, ret) ==
    tpm_crb_request_completed(w, d, ret)

tpm_crb_isa_get_version(w, d) ==
    tpm_crb_get_version(w, d)

\* a hook that calls the engine and swallows its status
pre_save_swallows(w, d, r) ==
    [w |-> tpm_crb_pre_save(w, d, r).w, ret |-> 0]

tpm_crb_isa_pre_save(w, d, r) ==
    tpm_crb_pre_save(w, d, r)

\* a reset that forwards the PPI base instead of the CRB base
reset_wrong_base(w, d) ==
    tpm_crb_reset(w, d, TPM_PPI_ADDR_BASE)

\* a reset that offsets the base from the one the registers hold
reset_from_current_base(w, d) ==
    tpm_crb_reset(w, d, w.engine[d].regs.base + TPM_CRB_ADDR_BASE)

tpm_crb_isa_reset(w, d) ==
    tpm_crb_reset(w, d, TPM_CRB_ADDR_BASE)

\* a mapping that puts the register window at the PPI base
realize_map_wrong_base(w, d, fail) ==
    LET w1 == tpm_crb_init_memory(w, d, fail)
        w2 == memory_region_add_subregion(w1, TPM_PPI_ADDR_BASE, <<d, "mmio">>)
    IN IF w2.dev[d].ppi_enabled
       THEN memory_region_add_subregion(w2, TPM_PPI_ADDR_BASE, <<d, "ppi.ram">>)
       ELSE w2

\* a mapping that ignores the "ppi" property
realize_map_always_ppi(w, d, fail) ==
    LET w1 == tpm_crb_init_memory(w, d, fail)
        w2 == memory_region_add_subregion(w1, TPM_CRB_ADDR_BASE, <<d, "mmio">>)
    IN memory_region_add_subregion(w2, TPM_PPI_ADDR_BASE, <<d, "ppi.ram">>)

\* lines 104-112: initialise the engine's memory and map the regions
realize_map(w, d, fail) ==
    LET w1 == tpm_crb_init_memory(w, d, fail)
        w2 == memory_region_add_subregion(w1, TPM_CRB_ADDR_BASE, <<d, "mmio">>)
    IN IF w2.dev[d].ppi_enabled
       THEN memory_region_add_subregion(w2, TPM_PPI_ADDR_BASE, <<d, "ppi.ram">>)
       ELSE w2

\* a realize that always registers the reset, also after running it
realize_reset_both(w, d) ==
    qemu_register_reset(
        IF xen_enabled(w) THEN tpm_crb_isa_reset(w, d) ELSE w,
        "tpm_crb_isa_reset", d)

\* a realize that registers the reset handler twice
realize_reset_twice(w, d) ==
    IF xen_enabled(w)
    THEN tpm_crb_isa_reset(w, d)
    ELSE qemu_register_reset(
             qemu_register_reset(w, "tpm_crb_isa_reset", d),
             "tpm_crb_isa_reset", d)

\* a realize with the two strategies exchanged
realize_reset_inverted(w, d) ==
    IF ~xen_enabled(w)
    THEN tpm_crb_isa_reset(w, d)
    ELSE qemu_register_reset(w, "tpm_crb_isa_reset", d)

\* a realize that does nothing about the reset under xen
realize_reset_not_under_xen(w, d) ==
    IF xen_enabled(w)
    THEN w
    ELSE qemu_register_reset(w, "tpm_crb_isa_reset", d)

\* lines 114-118: the reset-trigger strategy
realize_reset(w, d) ==
    IF xen_enabled(w)
    THEN tpm_crb_isa_reset(w, d)
    ELSE qemu_register_reset(w, "tpm_crb_isa_reset", d)

\* a realize without the singleton check
realize_no_singleton(w, d, fail) ==
    IF ~w.dev[d].tpmbe
    THEN error_setg(w, d, MissingBackend)
    ELSE realize_reset(realize_map(w, d, fail), d)

\* a realize without the backend check
realize_no_backend_check(w, d, fail) ==
    IF ~tpm_find(w)
    THEN error_setg(w, d, SingletonViolation)
    ELSE realize_reset(realize_map(w, d, fail), d)

\* a realize that looks for another instance only after it has set up
realize_late_singleton(w, d, fail) ==
    IF ~w.dev[d].tpmbe
    THEN error_setg(w, d, MissingBackend)
    ELSE LET w1 == realize_reset(realize_map(w, d, fail), d)
         IN IF ~tpm_find(w1)
            THEN error_setg(w1, d, SingletonViolation)
            ELSE w1

\* a realize that checks the backend before the singleton
realize_backend_first(w, d, fail) ==
    IF ~w.dev[d].tpmbe
    THEN error_setg(w, d, MissingBackend)
    ELSE IF ~tpm_find(w)
    THEN error_setg(w, d, SingletonViolation)
    ELSE realize_reset(realize_map(w, d, fail), d)

tpm_crb_isa_realize(w, d, fail) ==
    IF ~tpm_find(w)
    THEN error_setg(w, d, SingletonViolation)
    ELSE IF ~w.dev[d].tpmbe
    THEN error_setg(w, d, MissingBackend)
    ELSE realize_reset(realize_map(w, d, fail), d)

\* ------------------------------------------------------- AML builder
Aml(kind, name, str, num, num2, children) ==
    [kind |-> kind, name |-> name, str |-> str, num |-> num, num2 |-> num2,
     children |-> children]

aml_device(name) == Aml("device", name, "", 0, 0, <<>>)
aml_string(s) == Aml("string", "", s, 0, 0, <<>>)
aml_eisaid(s) == Aml("eisaid", "", s, 0, 0, <<>>)
aml_int(n) == Aml("int", "", "", n, 0, <<>>)
aml_name_decl(name, val) == Aml("name_decl", name, "", 0, 0, <<val>>)
aml_resource_template == Aml("resource_template", "", "", 0, 0, <<>>)
aml_memory32_fixed(base, size, rw) ==
    Aml("memory32_fixed", "", rw, base, size, <<>>)
aml_append(parent, child) ==
    [parent EXCEPT !.children = Append(@, child)]

\* the external PPI builder: it describes the PPI region of a device whose
\* "ppi" property is set, and adds nothing otherwise
tpm_build_ppi_acpi(w, d, node) ==
    IF w.dev[d].ppi_enabled
    THEN aml_append(node, Aml("ppi", "TPP2", "", TPM_PPI_ADDR_BASE, 0, <<>>))
    ELSE node

\* a choice that takes every version but 1.2 for 2.0
aml_hid_not_1_2(node, version) ==
    IF version # TPM_VERSION_1_2
    THEN aml_append(
             aml_append(node, aml_name_decl("_HID", aml_string("MSFT0101"))),
             aml_name_decl("_STR", aml_string("TPM 2.0 Device")))
    ELSE aml_append(node, aml_name_decl("_HID", aml_eisaid("PNP0C31")))

\* lines 128-133: the hardware-ID chosen by the engine's version
aml_hid(node, version) ==
    IF version = TPM_VERSION_2_0
    THEN aml_append(
             aml_append(node, aml_name_decl("_HID", aml_string("MSFT0101"))),
             aml_name_decl("_STR", aml_string("TPM 2.0 Device")))
    ELSE aml_append(node, aml_name_decl("_HID", aml_eisaid("PNP0C31")))

\* lines 134-139: unique-ID, status and the resource template
aml_common(node) ==
    LET n1 == aml_append(node, aml_name_decl("_UID", aml_int(1)))
        n2 == aml_append(n1, aml_name_decl("_STA", aml_int(15)))
        crs == aml_append(aml_resource_template,
                   aml_memory32_fixed(TPM_CRB_ADDR_BASE, TPM_CRB_ADDR_SIZE,
                                      AML_READ_WRITE))
    IN aml_append(n2, aml_name_decl("_CRS", crs))

\* an emission that resets the device before describing it
build_aml_resets(w, d, sc) ==
    LET v == tpm_crb_isa_get_version(tpm_crb_isa_reset(w, d), d)
        node == aml_common(aml_hid(aml_device("TPM"), v.ret))
    IN [w |-> v.w,
        scope |-> Append(sc, tpm_build_ppi_acpi(v.w, d, node))]

\* sc is the scope handed in; the result is the world and the scope after
build_tpm_crb_isa_aml(w, d, sc) ==
    LET v == tpm_crb_isa_get_version(w, d)
        node == aml_common(aml_hid(aml_device("TPM"), v.ret))
    IN [w |-> v.w,
        scope |-> Append(sc, tpm_build_ppi_acpi(v.w, d, node))]

\* ------------------------------------------------------------------ Init
NoDev == [tpmbe |-> FALSE, ppi_enabled |-> TRUE, errp |-> NoError,
          realized |-> FALSE]
NoEngine == [version |-> TPM_VERSION_UNSPEC, mem |-> FALSE,
             regs |-> [state |-> "none", base |-> 0]]
NoOp == [op |-> "none", dev |-> 0, ret |-> 0, snapshot |-> "none"]

Init ==
    /\ xen \in BOOLEAN
    /\ phase = "constructing"
    /\ tree = {}
    /\ dev = [d \in Devs |-> NoDev]
    /\ engine = [d \in Devs |-> NoEngine]
    /\ address_space = {}
    /\ reset_handlers = <<>>
    /\ calls = <<>>
    /\ notified = <<>>
    /\ inflight = {}
    /\ scope = <<>>
    /\ resets = 0
    /\ last = NoOp

SetWorld(w) ==
    /\ dev' = w.dev
    /\ engine' = w.engine
    /\ address_space' = w.address_space
    /\ reset_handlers' = w.reset_handlers
    /\ calls' = w.calls

\* ------------------------------------------------------ the platform
\* qemu_devices_reset(): every registered handler runs, in registration order
RECURSIVE qemu_devices_reset(_, _)
qemu_devices_reset(w, hs) ==
    IF hs = <<>>
    THEN w
    ELSE qemu_devices_reset(
             IF Head(hs).func = "tpm_crb_isa_reset"
             THEN tpm_crb_isa_reset(w, Head(hs).opaque)
             ELSE w,
             Tail(hs))

\* vmstate_save_state(): a non-zero pre_save fails the snapshot
vmstate_save_state(ret) == IF ret # 0 THEN "failed" ELSE "ok"

Op(op, d, ret, snapshot) ==
    [op |-> op, dev |-> d, ret |-> ret, snapshot |-> snapshot]

\* A device is created with its properties, put into the object tree and
\* realized.  A realize that reports an error aborts platform construction.
Realize(d, be, ppi, ver, fail) ==
    /\ phase = "constructing"
    /\ d \notin tree
    /\ LET w0 == [World EXCEPT
                     !.tree = @ \cup {d},
                     !.dev[d] = [tpmbe |-> be, ppi_enabled |-> ppi,
                                 errp |-> NoError, realized |-> FALSE],
                     !.engine[d].version =
                         IF be THEN ver ELSE TPM_VERSION_UNSPEC]
           w1 == tpm_crb_isa_realize(w0, d, fail)
           ok == w1.dev[d].errp = NoError
       IN /\ SetWorld([w1 EXCEPT !.dev[d].realized = ok])
          /\ tree' = w1.tree
          /\ phase' = IF ok THEN "constructing" ELSE "aborted"
    /\ last' = Op("realize", d, 0, "none")
    /\ UNCHANGED <<xen, notified, inflight, scope, resets>>

\* A platform reset; the first one ends platform construction.
PlatformReset ==
    /\ phase \in {"constructing", "running"}
    /\ Len(calls) < MaxCalls
    /\ resets < MaxResets
    /\ SetWorld(qemu_devices_reset(World, reset_handlers))
    /\ phase' = "running"
    /\ resets' = resets + 1
    /\ last' = Op("reset", 0, 0, "none")
    /\ UNCHANGED <<xen, tree, notified, inflight, scope>>

\* The guest starts a command through the mapped register window and the
\* engine hands it to the backend.
GuestCommand(d) ==
    /\ phase = "running"
    /\ dev[d].realized
    /\ \E r \in address_space : r.mr = <<d, "mmio">>
    /\ d \notin inflight
    /\ engine' = [engine EXCEPT ![d].regs.state = "busy"]
    /\ inflight' = inflight \cup {d}
    /\ last' = Op("guest", d, 0, "none")
    /\ UNCHANGED <<xen, phase, tree, dev, address_space, reset_handlers,
                   calls, notified, scope, resets>>

\* The backend of d reports the completion of the command, with result ret.
RequestCompleted(d, ret) ==
    /\ phase = "running"
    /\ d \in inflight
    /\ Len(calls) < MaxCalls
    /\ notified' = Append(notified, [dev |-> d, ret |-> ret])
    /\ SetWorld(tpm_crb_isa_request_completed(World, d, ret))
    /\ inflight' = inflight \ {d}
    /\ last' = Op("completed", d, ret, "none")
    /\ UNCHANGED <<xen, phase, tree, scope, resets>>

\* A snapshot of the platform saves the device; r is the engine's status.
PreSave(d, r) ==
    /\ phase = "running"
    /\ dev[d].realized
    /\ Len(calls) < MaxCalls
    /\ LET res == tpm_crb_isa_pre_save(World, d, r)
       IN /\ SetWorld(res.w)
          /\ last' = Op("pre_save", d, res.ret, vmstate_save_state(res.ret))
    /\ UNCHANGED <<xen, phase, tree, notified, inflight, scope, resets>>

\* The ACPI tables are built: the device contributes its node to a scope.
BuildAml(d) ==
    /\ phase \in {"constructing", "running"}
    /\ dev[d].realized
    /\ Len(calls) < MaxCalls
    /\ LET res == build_tpm_crb_isa_aml(World, d, <<>>)
       IN /\ SetWorld(res.w)
          /\ scope' = res.scope
    /\ last' = Op("emit", d, 0, "none")
    /\ UNCHANGED <<xen, phase, tree, notified, inflight, resets>>

Next ==
    \/ \E d \in Devs, be \in BOOLEAN, ppi \in BOOLEAN, ver \in Versions,
          fail \in BOOLEAN : Realize(d, be, ppi, ver, fail)
    \/ PlatformReset
    \/ \E d \in Devs : GuestCommand(d)
    \/ \E d \in Devs, ret \in ResultCodes : RequestCompleted(d, ret)
    \/ \E d \in Devs, r \in PreSaveRets : PreSave(d, r)
    \/ \E d \in Devs : BuildAml(d)

Spec == Init /\ [][Next]_vars

\* ------------------------------------------------------- properties
RegionsOf(as, d) == {r \in as : r.mr[1] = d}
RegionsOfKind(as, kind) == {r \in as : r.mr[2] = kind}
CallsOf(cs, op, d) == SelectSeq(cs, LAMBDA c : c.op = op /\ c.dev = d)
CallsFor(cs, d) == SelectSeq(cs, LAMBDA c : c.dev = d)
HandlersOf(hs, d) == SelectSeq(hs, LAMBDA h : h.opaque = d)
Decls(node, name) ==
    SelectSeq(node.children, LAMBDA c : c.kind = "name_decl" /\ c.name = name)
PpiFragments(node) == SelectSeq(node.children, LAMBDA c : c.kind = "ppi")
Untouched(d) ==
    /\ RegionsOf(address_space, d) = {}
    /\ CallsFor(calls, d) = <<>>
    /\ HandlersOf(reset_handlers, d) = <<>>
    /\ ~engine[d].mem

\* C1: when an instance already exists, the realize of a second instance
\* fails with SingletonViolation and leaves the mapped regions as they were.
C1_SecondRealizeFails ==
    [][(last'.op = "realize" /\ tree # {})
         => /\ dev'[last'.dev].errp = SingletonViolation
            /\ ~dev'[last'.dev].realized
            /\ address_space' = address_space]_vars

C1_Witness ==
    /\ last.op = "realize"
    /\ Cardinality(tree) = 2
    /\ dev[last.dev].errp = SingletonViolation
    /\ dev[last.dev].tpmbe
    /\ \E d \in tree : dev[d].realized /\ RegionsOf(address_space, d) # {}

\* C2 as stated: the realize of a device without a backend fails with
\* MissingBackend and touches nothing (no init_memory, no region, no reset
\* run or registered).
C2_AsStated ==
    \A d \in tree :
        ~dev[d].tpmbe => dev[d].errp = MissingBackend /\ Untouched(d)

\* C2: the realize of a device without a backend fails, with MissingBackend
\* when no other instance exists and with SingletonViolation when one does,
\* and touches nothing (no init_memory, no region, no reset run or
\* registered).
C2_MissingBackend ==
    \A d \in tree :
        ~dev[d].tpmbe
          => /\ dev[d].errp =
                    IF tree = {d} THEN MissingBackend ELSE SingletonViolation
             /\ ~dev[d].realized
             /\ Untouched(d)

C2_Witness ==
    \E d \in tree :
        /\ ~dev[d].tpmbe
        /\ dev[d].errp = MissingBackend
        /\ last.op = "realize" /\ last.dev = d
        /\ address_space = {}

\* C3: once a realize has succeeded, the address space holds exactly one
\* CRB register region, at the CRB base, and, if PPI is enabled, exactly
\* one PPI region, at the PPI base, in every later state.
C3_RegionsAfterRealize ==
    \A d \in Devs :
        dev[d].realized
          => /\ RegionsOfKind(address_space, "mmio")
                  = {[addr |-> TPM_CRB_ADDR_BASE, mr |-> <<d, "mmio">>]}
             /\ dev[d].ppi_enabled
                  => RegionsOfKind(address_space, "ppi.ram")
                       = {[addr |-> TPM_PPI_ADDR_BASE, mr |-> <<d, "ppi.ram">>]}

C3_Witness ==
    \E d \in Devs :
        /\ dev[d].realized /\ dev[d].ppi_enabled
        /\ Cardinality(address_space) = 2
        /\ resets >= 2
        /\ Len(notified) >= 1
        /\ last.op = "pre_save"

\* C4: the PPI region is mapped exactly when PPI is enabled, and the device
\* node of an emission holds the PPI fragment exactly when PPI is enabled.
C4_PpiOnlyWhenEnabled ==
    /\ \A d \in Devs :
          dev[d].realized
            => (dev[d].ppi_enabled
                  <=> RegionsOfKind(RegionsOf(address_space, d), "ppi.ram") # {})
    /\ last.op = "emit"
          => /\ Len(scope) = 1
             /\ Len(PpiFragments(scope[1])) =
                    IF dev[last.dev].ppi_enabled THEN 1 ELSE 0

C4_Witness ==
    /\ last.op = "emit"
    /\ ~dev[last.dev].ppi_enabled
    /\ RegionsOfKind(address_space, "ppi.ram") = {}
    /\ RegionsOfKind(address_space, "mmio") # {}
    /\ PpiFragments(scope[1]) = <<>>

\* C5: a successful realize either runs the engine reset once and registers
\* nothing (xen) or registers the reset and does not run it (standard); no
\* device is both reset by its realize and registered with the dispatcher.
C5_ResetStrategy ==
    \A d \in Devs :
        dev[d].realized
          => IF xen
             THEN /\ HandlersOf(reset_handlers, d) = <<>>
                  /\ last.op = "realize"
                       => CallsOf(calls, "reset", d)
                            = <<Call("reset", d, TPM_CRB_ADDR_BASE)>>
             ELSE /\ HandlersOf(reset_handlers, d)
                       = <<[func |-> "tpm_crb_isa_reset", opaque |-> d]>>
                  /\ resets = 0 => CallsOf(calls, "reset", d) = <<>>

C5_Witness ==
    \E d \in Devs :
        /\ xen /\ dev[d].realized
        /\ last.op = "realize" /\ last.dev = d
        /\ Len(CallsOf(calls, "reset", d)) = 1
        /\ reset_handlers = <<>>

\* C6: in standard mode every platform reset invokes the engine reset of a
\* realized device exactly once, and every engine reset is passed the CRB
\* base address.
C6_ResetPerPlatformReset ==
    [][/\ (~xen /\ resets' = resets + 1)
           => \A d \in Devs :
                 dev[d].realized
                   => Len(CallsOf(calls', "reset", d))
                        = Len(CallsOf(calls, "reset", d)) + 1
       /\ \A i \in DOMAIN calls' :
              calls'[i].op = "reset" => calls'[i].arg = TPM_CRB_ADDR_BASE]_vars

C6_Witness ==
    \E d \in Devs :
        /\ ~xen /\ dev[d].realized
        /\ resets = 2
        /\ last.op = "reset"
        /\ Len(CallsOf(calls, "reset", d)) = 2

\* C7: the request_completed calls the engine receives are the completion
\* notifications the backend delivered: same devices, same result codes,
\* same order, none added and none dropped.
C7_CompletionsForwarded ==
    LET fwd == SelectSeq(calls, LAMBDA c : c.op = "request_completed")
    IN notified = [i \in 1..Len(fwd) |-> [dev |-> fwd[i].dev, ret |-> fwd[i].arg]]

C7_Witness ==
    /\ Len(notified) >= 2
    /\ notified[1].ret # notified[2].ret
    /\ notified[1].ret # 0
    /\ notified[2].ret # 0

\* C8: pre_save returns the status of the engine's pre-save routine, so a
\* non-zero status fails the snapshot and a zero status does not.
C8_PreSavePropagates ==
    last.op = "pre_save"
      => /\ calls[Len(calls)] = Call("pre_save", last.dev, last.ret)
         /\ last.snapshot = "failed" <=> calls[Len(calls)].arg # 0

C8_Witness ==
    /\ last.op = "pre_save"
    /\ last.ret = -1
    /\ last.snapshot = "failed"

\* C9: the emitted device node has the 2.0 hardware-ID string and the
\* description for version 2.0 and the legacy PNP id without a description
\* for any other version; in both cases the unique-ID 1, the status 0xF and
\* one read/write fixed memory resource of the CRB window's base and size.
C9_DeviceNode ==
    last.op = "emit"
      => LET node == scope[Len(scope)]
             hid == Decls(node, "_HID")
             str == Decls(node, "_STR")
             uid == Decls(node, "_UID")
             sta == Decls(node, "_STA")
             crs == Decls(node, "_CRS")
         IN /\ node.kind = "device" /\ node.name = "TPM"
            /\ Len(hid) = 1
            /\ IF engine[last.dev].version = TPM_VERSION_2_0
               THEN /\ hid[1].children[1].kind = "string"
                    /\ hid[1].children[1].str = "MSFT0101"
                    /\ Len(str) = 1
                    /\ str[1].children[1].kind = "string"
                    /\ str[1].children[1].str = "TPM 2.0 Device"
               ELSE /\ hid[1].children[1].kind = "eisaid"
                    /\ hid[1].children[1].str = "PNP0C31"
                    /\ str = <<>>
            /\ Len(uid) = 1
            /\ uid[1].children[1].kind = "int" /\ uid[1].children[1].num = 1
            /\ Len(sta) = 1
            /\ sta[1].children[1].kind = "int" /\ sta[1].children[1].num = 15
            /\ Len(crs) = 1
            /\ crs[1].children[1].kind = "resource_template"
            /\ Len(crs[1].children[1].children) = 1
            /\ LET m == crs[1].children[1].children[1]
               IN /\ m.kind = "memory32_fixed"
                  /\ m.num = TPM_CRB_ADDR_BASE
                  /\ m.num2 = TPM_CRB_ADDR_SIZE
                  /\ m.str = AML_READ_WRITE

C9_Witness ==
    /\ last.op = "emit"
    /\ engine[last.dev].version = TPM_VERSION_UNSPEC
    /\ Len(scope) = 1
    /\ Decls(scope[1], "_STR") = <<>>

\* C10: an emission changes nothing of the device (regions, reset
\* registration, properties, engine state) and calls no engine operation
\* but the version query.
C10_EmitReadsOnly ==
    [][last'.op = "emit"
         => /\ dev' = dev
            /\ engine' = engine
            /\ address_space' = address_space
            /\ reset_handlers' = reset_handlers
            /\ tree' = tree
            /\ calls' = Append(calls, Call("get_version", last'.dev, 0))]_vars

C10_Witness ==
    /\ last.op = "emit"
    /\ engine[last.dev].regs.state = "error"
    /\ calls[Len(calls)].op = "get_version"
    /\ Len(SelectSeq(calls, LAMBDA c : c.op = "get_version")) = 1

\* the device's reset invoked n times in sequence
RECURSIVE ResetTimes(_, _, _)
ResetTimes(w, d, n) ==
    IF n = 0 THEN w ELSE ResetTimes(tpm_crb_isa_reset(w, d), d, n - 1)

\* C11: from any state of a realized device, resetting it N times leaves the
\* same register state as resetting it once, and the registers a platform
\* reset leaves are that state.
C11_ResetIdempotent ==
    \A d \in Devs :
        dev[d].realized
          => /\ \A n \in 1..MaxResets :
                    ResetTimes(World, d, n).engine[d].regs
                      = ResetTimes(World, d, 1).engine[d].regs
             /\ (~xen /\ last.op = "reset")
                  => engine[d].regs = ResetTimes(World, d, 1).engine[d].regs

C11_Witness ==
    \E d \in Devs :
        /\ ~xen /\ dev[d].realized
        /\ resets >= 2
        /\ last.op = "reset"
        /\ notified # <<>>
        /\ engine[d].regs = [state |-> "idle", base |-> TPM_CRB_ADDR_BASE]

\* C12: only realize changes the address space: no reset, completion,
\* pre_save, emission or guest access adds or removes a region; and the
\* reset dispatcher never holds more than one registration of a device.
C12_AddressSpaceFrame ==
    [][/\ last'.op # "realize" => address_space' = address_space
       /\ \A d \in Devs : Len(HandlersOf(reset_handlers', d)) <= 1]_vars

C12_Witness ==
    \E d \in Devs :
        /\ dev[d].realized
        /\ Len(HandlersOf(reset_handlers, d)) = 1
        /\ Cardinality(address_space) = 2
        /\ resets >= 1
        /\ notified # <<>>
        /\ last.op = "emit"

\* C13: a realize that reported an error, the error of init_memory included,
\* has mapped no region and has neither run nor registered a reset.
C13_NoHalfInitialized ==
    \A d \in tree :
        dev[d].errp # NoError
          => /\ ~dev[d].realized
             /\ RegionsOf(address_space, d) = {}
             /\ HandlersOf(reset_handlers, d) = <<>>
             /\ CallsOf(calls, "reset", d) = <<>>

\* C14: a failed realize reports the one error of the first check that
\* fails, the singleton check before the backend check: with another
\* instance present and no backend bound it is SingletonViolation.
C14_CheckOrder ==
    \A d \in tree :
        /\ (tree # {d} /\ dev[d].errp # NoError)
              => dev[d].errp = SingletonViolation
        /\ (tree = {d} /\ ~dev[d].tpmbe) => dev[d].errp = MissingBackend
        /\ dev[d].errp \in {SingletonViolation, MissingBackend}
              => Untouched(d)

C14_Witness ==
    \E d \in tree :
        /\ tree # {d}
        /\ ~dev[d].tpmbe
        /\ last.op = "realize" /\ last.dev = d
        /\ dev[d].errp = SingletonViolation

\* the register state init_memory leaves, and the one a reset leaves
RegsOfInitMemory == [state |-> "init", base |-> 0]
RegsOfReset == [state |-> "idle", base |-> TPM_CRB_ADDR_BASE]

\* C15 as stated: after a successful realize the registers are as
\* init_memory left them until the first reset after the realize.
C15_AsStated ==
    \A d \in Devs :
        (dev[d].realized /\ resets = 0)
          => /\ engine[d].regs = RegsOfInitMemory
             /\ CallsOf(calls, "reset", d) = <<>>

\* C15: in standard mode the registers of a realized device are as
\* init_memory left them until the first platform reset; under xen the
\* realize runs the engine reset itself and leaves the reset state.
C15_RegistersAfterRealize ==
    \A d \in Devs :
        (dev[d].realized /\ resets = 0)
          => /\ CallsFor(calls, d)[1] = Call("init_memory", d, 0)
             /\ IF xen
                THEN /\ engine[d].regs = RegsOfReset
                     /\ Len(CallsOf(calls, "reset", d)) = 1
                ELSE /\ engine[d].regs = RegsOfInitMemory
                     /\ CallsOf(calls, "reset", d) = <<>>

C15_Witness ==
    \E d \in Devs :
        /\ ~xen /\ dev[d].realized
        /\ resets = 0
        /\ last.op = "emit"
        /\ engine[d].regs = RegsOfInitMemory
        /\ RegionsOf(address_space, d) # {}

\* C16: every completion forwarded to the engine is for a successfully
\* realized device and comes after an engine reset of that device.
C16_ResetBeforeCompletion ==
    \A i \in DOMAIN calls :
        calls[i].op = "request_completed"
          => /\ dev[calls[i].dev].realized
             /\ \E j \in 1..(i - 1) :
                    calls[j] = Call("reset", calls[i].dev, TPM_CRB_ADDR_BASE)

C16_Witness ==
    \E d \in Devs :
        /\ xen /\ dev[d].realized
        /\ last.op = "completed" /\ last.dev = d
        /\ Len(CallsOf(calls, "reset", d)) = 1
        /\ Len(CallsOf(calls, "request_completed", d)) = 2

\* C17: under xen the engine reset of a realized device has run exactly
\* once, inside realize, in every state; a platform reset calls nothing and
\* leaves the engine's registers, changed by guest and backend, as they are.
C17_XenResetsOnce ==
    [][xen => /\ \A d \in Devs :
                    dev'[d].realized
                      => Len(CallsOf(calls', "reset", d)) = 1
              /\ resets' = resets + 1
                    => engine' = engine /\ calls' = calls]_vars

C17_Witness ==
    \E d \in Devs :
        /\ xen /\ dev[d].realized
        /\ resets >= 2
        /\ last.op = "reset"
        /\ engine[d].regs.state = "error"
        /\ Len(CallsOf(calls, "reset", d)) = 1

\* C18 as stated: a failed realize of a second instance leaves the first
\* instance as it was, and the platform goes on delivering resets and
\* completions to it.
C18_AsStated ==
    [][(last'.op = "realize" /\ tree # {})
         => /\ address_space' = address_space
            /\ reset_handlers' = reset_handlers
            /\ calls' = calls
            /\ \A d \in tree : dev'[d] = dev[d] /\ engine'[d] = engine[d]
            /\ phase' \in {"constructing", "running"}]_vars

\* C18: a failed realize of a second instance leaves the first instance as
\* it was (regions, reset registration, backend binding, engine); it aborts
\* platform construction, so no reset or completion is delivered after it.
C18_FirstInstanceUntouched ==
    [][(last'.op = "realize" /\ tree # {})
         => /\ address_space' = address_space
            /\ reset_handlers' = reset_handlers
            /\ calls' = calls
            /\ \A d \in tree : dev'[d] = dev[d] /\ engine'[d] = engine[d]
            /\ phase' = "aborted"]_vars

C18_Witness ==
    \E d \in tree :
        /\ ~xen /\ dev[d].realized /\ dev[d].tpmbe
        /\ HandlersOf(reset_handlers, d) # <<>>
        /\ RegionsOf(address_space, d) # {}
        /\ last.op = "realize" /\ last.dev # d
        /\ dev[last.dev].errp = SingletonViolation
        /\ phase = "aborted"
====
